---- MODULE Spec2Model ----
(***************************************************************************)
(* Model of create-app.js: the create-react-express-app command.  The      *)
(* command is one sequential handler (the commander action); every         *)
(* statement of it that touches the filesystem or runs a process is one    *)
(* step of the run.  The generated vite.config.js and server.js are        *)
(* modelled by what they do once the scaffolded project is started.        *)
(***************************************************************************)
EXTENDS Integers, Sequences, FiniteSets, TLC

VARIABLES
    appName,      \* the <app-name> argument
    dirs,         \* directories that exist below process.cwd()
    files,        \* files that exist below process.cwd(): path -> content
    pc,           \* position of the action handler
    widx,         \* index of the for-loop over Object.entries(files)
    packageJson,  \* the in-memory object read from package.json
    out,          \* console output, in order
    exitCode,     \* exit status once the process is gone
    failedAt,     \* the step that threw, "none" when none did
    ops,          \* history: the mutating steps attempted, in order
    fs0,          \* history: the filesystem at the start of the run
    names2,       \* generator view: the names of two runs
    gen,          \* generator view: what each of the two runs produced
    base,         \* patch view: the manifest package.json holds
    after,        \* patch view: the manifest after each application
    applied,      \* patch view: number of applications of the patch
    envPORT,      \* dev view: process.env.PORT of the generated server
    listening,    \* dev view: the port the generated server listens on
    req,          \* dev view: path of a request to the vite dev server
    fwd           \* dev view: what the proxy forwarded

runVars == <<appName, dirs, files, pc, widx, packageJson, out, exitCode, failedAt, ops, fs0>>
genVars == <<names2, gen>>
patchVars == <<base, after, applied>>
devVars == <<envPORT, listening, req, fwd>>
vars == <<runVars, genVars, patchVars, devVars>>

(***************************************************************************)
(* Bounds of the model.                                                    *)
(***************************************************************************)
\* manifests of the patch view have at most this many top-level keys
MaxKeys == 3
\* request paths of the dev view are "/api" followed by at most this many characters
MaxTail == 3

\* application names tried
Names == {"demo", "blog"}

(***************************************************************************)
(* JSON values.  A value is a string, an object (ordered members with      *)
(* string values) or an array; all three share one record shape.           *)
(***************************************************************************)
Str(s) == [kind |-> "str", str |-> s, obj |-> <<>>]
Obj(members) == [kind |-> "obj", str |-> "", obj |-> members]
Arr == [kind |-> "arr", str |-> "", obj |-> <<>>]

KeysOf(o) == {o[i][1] : i \in 1..Len(o)}
HasKey(o, k) == k \in KeysOf(o)
IndexOf(o, k) == CHOOSE i \in 1..Len(o) : o[i][1] = k
Get(o, k) == o[IndexOf(o, k)][2]

\* obj[k] = v on a JavaScript object: an existing property keeps its place
\* and takes the new value, a new property goes last
SetPropAppend(o, k, v) == Append(o, <<k, v>>)
SetProp(o, k, v) ==
    IF HasKey(o, k)
    THEN [i \in 1..Len(o) |-> IF o[i][1] = k THEN <<k, v>> ELSE o[i]]
    ELSE Append(o, <<k, v>>)

RECURSIVE ParseMembers(_, _)
ParseMembers(members, o) ==
    IF members = <<>> THEN o
    ELSE ParseMembers(Tail(members), SetProp(o, Head(members)[1], Head(members)[2]))

\* a JSON document on disk: its members as written and its indentation
JsonDoc(members, spaces) == [kind |-> "json", lines |-> <<>>, indent |-> spaces, members |-> members]
TextFile(lines) == [kind |-> "text", lines |-> lines, indent |-> 0, members |-> <<>>]

\* fs.readJsonSync: JSON.parse of the document, members assigned in order
ReadJson(doc) == ParseMembers(doc.members, <<>>)
\* fs.writeJsonSync(path, obj, { spaces }): the object's properties in order
WriteJson(o, spaces) == JsonDoc(o, spaces)

(***************************************************************************)
(* The scaffold entries: const files = { ... } of the handler.             *)
(* A template is the sequence of its lines; a relative path is the         *)
(* sequence of its components ('src/index.jsx' is <<"src", "index.jsx">>). *)
(***************************************************************************)
ServerJs ==
    << "",
       "import express from 'express';",
       "import { join } from 'path';",
       "",
       "const app = express();",
       "const PORT = process.env.PORT || 3000;",
       "",
       "// Serve static files from the dist directory in production",
       "if (process.env.NODE_ENV === 'production') {",
       "  app.use(express.static(join(process.cwd(), 'dist')));",
       "",
       "  app.get('*', (req, res) => {",
       "    res.sendFile(join(process.cwd(), 'dist', 'index.html'));",
       "  });",
       "} else {",
       "  console.log('In development mode. Use Vite for the frontend.');",
       "}",
       "",
       "app.listen(PORT, () => {",
       "  console.log('Server is running on http://localhost:'+PORT);",
       "});",
       "      " >>

ViteConfigJs ==
    << "",
       "import { defineConfig } from 'vite';",
       "import react from '@vitejs/plugin-react';",
       "",
       "export default defineConfig({",
       "  plugins: [react()],",
       "  build: {",
       "    outDir: 'dist',",
       "    sourcemap: true,",
       "  },",
       "  server: {",
       "    proxy: {",
       "      '/api': {",
       "        target: 'http://localhost:3000',",
       "        changeOrigin: true,",
       "        rewrite: (path) => path.replace(/api/, ''),",
       "      },",
       "    },",
       "  },",
       "});",
       "      " >>

IndexHtml ==
    << "",
       "<!doctype html>",
       "<html lang=\"en\">",
       "  <head>",
       "    <meta charset=\"UTF-8\" />",
       "    <link rel=\"icon\" type=\"image/svg+xml\" href=\"/vite.svg\" />",
       "    <meta name=\"viewport\" content=\"width=device-width, initial-scale=1.0\" />",
       "    <title>Vite + React</title>",
       "  </head>",
       "  <body>",
       "    <div id=\"root\"></div>",
       "    <script type=\"module\" src=\"/src/index.jsx\"></script>",
       "  </body>",
       "</html>",
       "      " >>

IndexJsx ==
    << "",
       "import { StrictMode } from 'react'",
       "import { createRoot } from 'react-dom/client'",
       "import App from './App.jsx'",
       "",
       "createRoot(document.getElementById('root')).render(",
       "  <StrictMode>",
       "    <App />",
       "  </StrictMode>,",
       ");",
       "      " >>

AppJsx ==
    << "",
       "import React from 'react';",
       "",
       "const App = () => {",
       "  return <h1>Hello, Vite + React!</h1>;",
       "};",
       "",
       "export default App;",
       "      " >>

\* a variant that interpolates the name into the page title
FilesNamed(name) ==
    << << <<"server.js">>, ServerJs >>,
       << <<"vite.config.js">>, ViteConfigJs >>,
       << <<"index.html">>, [IndexHtml EXCEPT ![8] = name] >>,
       << <<"src", "index.jsx">>, IndexJsx >>,
       << <<"src", "App.jsx">>, AppJsx >> >>

\* a variant that lost the root component
FilesNoApp(name) ==
    << << <<"server.js">>, ServerJs >>,
       << <<"vite.config.js">>, ViteConfigJs >>,
       << <<"index.html">>, IndexHtml >>,
       << <<"src", "index.jsx">>, IndexJsx >> >>

\* Object.entries(files), in property order, inside action(appName)
Files(name) ==
    << << <<"server.js">>, ServerJs >>,
       << <<"vite.config.js">>, ViteConfigJs >>,
       << <<"index.html">>, IndexHtml >>,
       << <<"src", "index.jsx">>, IndexJsx >>,
       << <<"src", "App.jsx">>, AppJsx >> >>

\* lines that hold white space only
IsBlank(line) == line \in {"", "      "}

RECURSIVE TrimStart(_)
TrimStart(lines) ==
    IF lines # <<>> /\ IsBlank(Head(lines)) THEN TrimStart(Tail(lines)) ELSE lines

RECURSIVE TrimEnd(_)
TrimEnd(lines) ==
    IF lines # <<>> /\ IsBlank(lines[Len(lines)])
    THEN TrimEnd(SubSeq(lines, 1, Len(lines) - 1))
    ELSE lines

\* content.trim(): the white space at both ends of a template goes
Trim(lines) == TrimEnd(TrimStart(lines))

(***************************************************************************)
(* The manifest patch: packageJson.type = ...; packageJson.scripts = ...   *)
(***************************************************************************)
Scripts ==
    Obj(<< <<"dev", "vite">>,
           <<"build", "vite build">>,
           <<"start", "NODE_ENV=production node server.js">> >>)

\* a variant that merges the three scripts into the existing mapping
RECURSIVE MergeMembers(_, _)
MergeMembers(o, members) ==
    IF members = <<>> THEN o
    ELSE MergeMembers(SetProp(o, Head(members)[1], Head(members)[2]), Tail(members))

PatchManifestMerge(o) ==
    SetProp(SetProp(o, "type", Str("module")), "scripts",
            IF HasKey(o, "scripts") /\ Get(o, "scripts").kind = "obj"
            THEN Obj(MergeMembers(Get(o, "scripts").obj, Scripts.obj))
            ELSE Scripts)

\* a variant that deletes the two properties and adds them again at the end
Without(o, k) == SelectSeq(o, LAMBDA m : m[1] # k)
PatchManifestMove(o) ==
    Append(Append(Without(Without(o, "type"), "scripts"),
                  <<"type", Str("module")>>), <<"scripts", Scripts>>)

\* a variant that adds the script entries as further members on every application
PatchManifestAppend(o) ==
    SetPropAppend(SetPropAppend(o, "type", Str("module")), "scripts", Scripts)

PatchManifest(o) == SetProp(SetProp(o, "type", Str("module")), "scripts", Scripts)

(***************************************************************************)
(* The run of the command: .action(async (appName) => { ... })             *)
(* Paths are relative to process.cwd(): appPath is <<appName>>.            *)
(***************************************************************************)
appPath == <<appName>>
packageJsonPath == <<appName, "package.json">>
lockPath == <<appName, "package-lock.json">>
nodeModulesPath == <<appName, "node_modules">>
srcPath == <<appName, "src">>

\* fs.existsSync: true for a directory and for a file
ExistsSync(p) == p \in dirs \/ p \in DOMAIN files

\* what the package manager leaves in the project root
NpmOutput == {packageJsonPath, lockPath}

\* the order of the mutating steps of the handler
StepOrder ==
    << "mkdir", "npmInit", "install", "installDev", "mkdirSrc",
       "write", "write", "write", "write", "write", "readJson", "writeJson" >>

\* the versions a package may resolve to
Versions == {"^1.0.0", "^2.0.0"}

\* the manifest `npm init -y` writes; recent npm adds "type": "commonjs"
NpmInitManifest(name, license, withType) ==
    << <<"name", Str(name)>>,
       <<"version", Str("1.0.0")>>,
       <<"description", Str("")>>,
       <<"main", Str("index.js")>>,
       <<"scripts", Obj(<< <<"test", "echo \"Error: no test specified\" && exit 1">> >>)>>,
       <<"keywords", Arr>>,
       <<"author", Str("")>>,
       <<"license", Str(license)>> >>
    \o (IF withType THEN << <<"type", Str("commonjs")>> >> ELSE <<>>)

\* `npm install [--save-dev] pkgs`: the manifest gains the dependency mapping
NpmInstallManifest(doc, key, pkgs, v) ==
    WriteJson(SetProp(ReadJson(doc), key, Obj([i \in 1..Len(pkgs) |-> <<pkgs[i], v>>])), 2)

dependencies == <<"react", "react-dom", "express">>
devDependencies == <<"vite", "@vitejs/plugin-react">>

\* a step threw and a handler removed the project directory again
ThrowWithCleanup(step, d, f) ==
    /\ pc' = "crashed"
    /\ failedAt' = step
    /\ ops' = Append(ops, step)
    /\ dirs' = {p \in d : p = <<>> \/ p[1] # appName}
    /\ files' = [p \in {q \in DOMAIN f : q[1] # appName} |-> f[p]]
    /\ \E code \in {0, 1} : exitCode' = code
    /\ UNCHANGED <<appName, widx, packageJson, out, fs0>>

\* a synchronous call threw inside the async action: nothing catches it, the
\* promise is rejected and the process ends (status 1, or 0 with a warning on
\* runtimes that only warn about unhandled rejections); d and f are the
\* filesystem the failed call left behind
Throw(step, d, f) ==
    /\ pc' = "crashed"
    /\ failedAt' = step
    /\ ops' = Append(ops, step)
    /\ dirs' = d
    /\ files' = f
    /\ \E code \in {0, 1} : exitCode' = code
    /\ UNCHANGED <<appName, widx, packageJson, out, fs0>>

\* a check that reports the directory and carries on
CheckExistsNoExit ==
    /\ pc = "check"
    /\ UNCHANGED <<genVars, patchVars, devVars>>
    /\ out' = Append(out, IF ExistsSync(appPath)
                          THEN <<"Directory", appName, "already exists.">>
                          ELSE <<"Creating project in", appName, "...">>)
    /\ pc' = "mkdir"
    /\ UNCHANGED <<appName, dirs, files, widx, packageJson, exitCode, failedAt, ops, fs0>>

\* if (fs.existsSync(appPath)) { console.log(...); process.exit(1); }
CheckExists ==
    /\ pc = "check"
    /\ UNCHANGED <<genVars, patchVars, devVars>>
    /\ IF ExistsSync(appPath)
       THEN /\ out' = Append(out, <<"Directory", appName, "already exists.">>)
            /\ pc' = "exited"
            /\ exitCode' = 1
       ELSE /\ out' = Append(out, <<"Creating project in", appName, "...">>)
            /\ pc' = "mkdir"
            /\ UNCHANGED exitCode
    /\ UNCHANGED <<appName, dirs, files, widx, packageJson, failedAt, ops, fs0>>

\* a mkdir that reports success without creating the directory
MkdirAppNoop ==
    /\ pc = "mkdir"
    /\ UNCHANGED <<genVars, patchVars, devVars>>
    /\ ops' = Append(ops, "mkdir")
    /\ out' = Append(out, <<"Initializing npm project...">>)
    /\ pc' = "npmInit"
    /\ UNCHANGED <<appName, dirs, files, widx, packageJson, exitCode, failedAt, fs0>>

\* fs.mkdirSync(appPath)
MkdirApp ==
    /\ pc = "mkdir"
    /\ UNCHANGED <<genVars, patchVars, devVars>>
    /\ \/ /\ ~ExistsSync(appPath)
          /\ dirs' = dirs \cup {appPath}
          /\ ops' = Append(ops, "mkdir")
          /\ out' = Append(out, <<"Initializing npm project...">>)
          /\ pc' = "npmInit"
          /\ UNCHANGED <<appName, files, widx, packageJson, exitCode, failedAt, fs0>>
       \/ Throw("mkdir", dirs, files)

\* execSync('npm init -y', { cwd: appPath })
NpmInit ==
    /\ pc = "npmInit"
    /\ UNCHANGED <<genVars, patchVars, devVars>>
    /\ \/ /\ appPath \in dirs
          /\ \E license \in {"ISC", "MIT"}, withType \in BOOLEAN :
                files' = (packageJsonPath :> JsonDoc(NpmInitManifest(appName, license, withType), 2))
                         @@ files
          /\ ops' = Append(ops, "npmInit")
          /\ out' = Append(out, <<"Installing dependencies...">>)
          /\ pc' = "install"
          /\ UNCHANGED <<appName, dirs, widx, packageJson, exitCode, failedAt, fs0>>
       \/ Throw("npmInit", dirs, files)

\* execSync(`npm install ${dependencies.join(' ')}`, { cwd: appPath })
NpmInstall ==
    /\ pc = "install"
    /\ UNCHANGED <<genVars, patchVars, devVars>>
    /\ \/ /\ packageJsonPath \in DOMAIN files
          /\ \E v \in Versions :
                files' = (packageJsonPath :>
                              NpmInstallManifest(files[packageJsonPath], "dependencies", dependencies, v))
                         @@ (lockPath :> TextFile(<<"lock", v>>)) @@ files
          /\ dirs' = dirs \cup {nodeModulesPath}
          /\ ops' = Append(ops, "install")
          /\ pc' = "installDev"
          /\ UNCHANGED <<appName, widx, packageJson, out, exitCode, failedAt, fs0>>
       \/ \E partial \in BOOLEAN :
             Throw("install", IF partial THEN dirs \cup {nodeModulesPath} ELSE dirs, files)

\* execSync(`npm install --save-dev ${devDependencies.join(' ')}`, { cwd: appPath })
NpmInstallDev ==
    /\ pc = "installDev"
    /\ UNCHANGED <<genVars, patchVars, devVars>>
    /\ \/ /\ packageJsonPath \in DOMAIN files
          /\ \E v \in Versions :
                files' = (packageJsonPath :>
                              NpmInstallManifest(files[packageJsonPath], "devDependencies", devDependencies, v))
                         @@ (lockPath :> TextFile(<<"lock", v>>)) @@ files
          /\ ops' = Append(ops, "installDev")
          /\ out' = Append(out, <<"Setting up project structure...">>)
          /\ pc' = "mkdirSrc"
          /\ UNCHANGED <<appName, dirs, widx, packageJson, exitCode, failedAt, fs0>>
       \/ Throw("installDev", dirs, files)

\* fs.mkdirSync(path.join(appPath, 'src'), { recursive: true })
MkdirSrc ==
    /\ pc = "mkdirSrc"
    /\ UNCHANGED <<genVars, patchVars, devVars>>
    /\ \/ /\ dirs' = dirs \cup {appPath, srcPath}
          /\ ops' = Append(ops, "mkdirSrc")
          /\ widx' = 1
          /\ pc' = "write"
          /\ UNCHANGED <<appName, files, packageJson, out, exitCode, failedAt, fs0>>
       \/ Throw("mkdirSrc", dirs, files)

\* path.join(appPath, filePath)
FullPath(filePath) == appPath \o filePath
\* the directories above a path, the root of the project included
Ancestors(p) == {SubSeq(p, 1, n) : n \in 1..(Len(p) - 1)}

\* one turn of: for (const [filePath, content] of Object.entries(files))
\*                fs.outputFileSync(path.join(appPath, filePath), content.trim())
\* outputFileSync makes the missing parent directories before it writes
WriteEntry ==
    /\ pc = "write"
    /\ UNCHANGED <<genVars, patchVars, devVars>>
    /\ widx <= Len(Files(appName))
    /\ \/ LET entry == Files(appName)[widx]
              fullPath == FullPath(entry[1])
              last == widx = Len(Files(appName))
          IN  /\ dirs' = dirs \cup Ancestors(fullPath)
              /\ files' = (fullPath :> TextFile(Trim(entry[2]))) @@ files
              /\ ops' = Append(ops, "write")
              /\ widx' = widx + 1
              /\ pc' = IF last THEN "readJson" ELSE "write"
              /\ out' = IF last THEN Append(out, <<"Updating package.json...">>) ELSE out
              /\ UNCHANGED <<appName, packageJson, exitCode, failedAt, fs0>>
       \/ Throw("write", dirs, files)

\* const packageJson = fs.readJsonSync(packageJsonPath)
ReadPackageJson ==
    /\ pc = "readJson"
    /\ UNCHANGED <<genVars, patchVars, devVars>>
    /\ \/ /\ packageJsonPath \in DOMAIN files
          /\ packageJson' = ReadJson(files[packageJsonPath])
          /\ ops' = Append(ops, "readJson")
          /\ pc' = "writeJson"
          /\ UNCHANGED <<appName, dirs, files, widx, out, exitCode, failedAt, fs0>>
       \/ Throw("readJson", dirs, files)

\* packageJson.type = ...; packageJson.scripts = ...;
\* fs.writeJsonSync(packageJsonPath, packageJson, { spaces: 2 }); the closing messages
WritePackageJson ==
    /\ pc = "writeJson"
    /\ UNCHANGED <<genVars, patchVars, devVars>>
    /\ \/ /\ packageJson' = PatchManifest(packageJson)
          /\ files' = (packageJsonPath :> WriteJson(packageJson', 2)) @@ files
          /\ ops' = Append(ops, "writeJson")
          /\ out' = out \o << <<"Project created successfully!">>,
                              <<"Run the following commands to get started:">>,
                              <<"cd", appName>>,
                              <<"npm run dev">> >>
          /\ pc' = "done"
          /\ exitCode' = 0
          /\ UNCHANGED <<appName, dirs, widx, failedAt, fs0>>
       \/ Throw("writeJson", dirs, files)

\* a directory of that name, a file of that name, or nothing, for each name
CwdEntries == [Names -> {"none", "dir", "file"}]

RunInit ==
    /\ appName \in Names
    /\ \E cwd \in CwdEntries :
          /\ dirs = {<<n>> : n \in {m \in Names : cwd[m] = "dir"}}
          /\ files = [p \in {<<n>> : n \in {m \in Names : cwd[m] = "file"}} |-> TextFile(<<"old">>)]
    /\ pc = "check"
    /\ widx = 0
    /\ packageJson = <<>>
    /\ out = <<>>
    /\ exitCode = 0
    /\ failedAt = "none"
    /\ ops = <<>>
    /\ fs0 = [dirs |-> dirs, files |-> files]

RunNext ==
    \/ CheckExists
    \/ MkdirApp
    \/ NpmInit
    \/ NpmInstall
    \/ NpmInstallDev
    \/ MkdirSrc
    \/ WriteEntry
    \/ ReadPackageJson
    \/ WritePackageJson

GenIdle == names2 = <<"demo", "demo">> /\ gen = <<>>
PatchIdle == base = JsonDoc(<<>>, 2) /\ after = <<>> /\ applied = 0
DevIdle == envPORT = [set |-> FALSE, val |-> 0] /\ listening = <<>> /\ req = <<>> /\ fwd = <<>>
RunIdle ==
    /\ appName = "demo" /\ dirs = {} /\ files = <<>> /\ pc = "idle" /\ widx = 0
    /\ packageJson = <<>> /\ out = <<>> /\ exitCode = 0 /\ failedAt = "none"
    /\ ops = <<>> /\ fs0 = [dirs |-> {}, files |-> <<>>]

Init == RunInit /\ GenIdle /\ PatchIdle /\ DevIdle
Next == RunNext
Spec == Init /\ [][Next]_vars

(***************************************************************************)
(* Generator view: what two runs of the handler generate, side by side.    *)
(***************************************************************************)
\* the entries a run writes and the manifest it leaves, for the name of run i
Generate(i) ==
    /\ i \notin DOMAIN gen
    /\ UNCHANGED <<runVars, patchVars, devVars>>
    /\ \E license \in {"ISC", "MIT"}, withType \in BOOLEAN, v \in Versions :
          LET name == names2[i]
              initDoc == JsonDoc(NpmInitManifest(name, license, withType), 2)
              installed == NpmInstallManifest(initDoc, "dependencies", dependencies, v)
          IN  gen' = (i :> [root |-> <<name>>,
                            entries |-> [k \in 1..Len(Files(name)) |->
                                            <<Files(name)[k][1], Trim(Files(name)[k][2])>>],
                            manifest |-> WriteJson(PatchManifest(ReadJson(installed)), 2)])
                     @@ gen
    /\ UNCHANGED names2

GenInit == names2 \in Names \X Names /\ gen = <<>>
GenNext == \E i \in 1..2 : Generate(i)

InitGen == GenInit /\ RunIdle /\ PatchIdle /\ DevIdle
NextGen == GenNext
SpecGen == InitGen /\ [][NextGen]_vars

(***************************************************************************)
(* Patch view: the read, patch, write of package.json on any manifest.     *)
(***************************************************************************)
\* the patch is applied at most this many times in a row
MaxApply == 2

PatchKeys == {"name", "description", "type", "scripts", "dependencies"}
ValuesOf(k) ==
    CASE k = "name" -> {Str("demo")}
      [] k = "description" -> {Str(""), Str("x")}
      [] k = "type" -> {Str("commonjs"), Str("module")}
      [] k = "scripts" -> {Obj(<<>>),
                           Obj(<< <<"test", "jest">> >>),
                           Obj(<< <<"start", "node old.js">>, <<"lint", "eslint .">> >>),
                           Scripts}
      [] OTHER -> {Obj(<< <<"react", "^1.0.0">> >>)}

\* the manifests with n distinct keys
RECURSIVE ManifestsOfLen(_)
ManifestsOfLen(n) ==
    IF n = 0 THEN {<<>>}
    ELSE UNION {{Append(m, <<k, v>>) : v \in ValuesOf(k)} :
                   <<m, k>> \in {mk \in ManifestsOfLen(n - 1) \X PatchKeys : ~HasKey(mk[1], mk[2])}}
Manifests == UNION {ManifestsOfLen(n) : n \in 0..MaxKeys}

\* lines 130-137 on the document package.json holds
ApplyPatch ==
    /\ applied < MaxApply
    /\ UNCHANGED <<runVars, genVars, devVars>>
    /\ LET doc == IF applied = 0 THEN base ELSE after[applied]
       IN  after' = Append(after, WriteJson(PatchManifest(ReadJson(doc)), 2))
    /\ applied' = applied + 1
    /\ UNCHANGED base

PatchInit == base \in {JsonDoc(m, 2) : m \in Manifests} /\ after = <<>> /\ applied = 0

InitPatch == PatchInit /\ RunIdle /\ GenIdle /\ DevIdle
NextPatch == ApplyPatch
SpecPatch == InitPatch /\ [][NextPatch]_vars

(***************************************************************************)
(* Dev view: the generated server.js and the proxy of vite.config.js       *)
(* at work.  A request path is the sequence of its characters.             *)
(***************************************************************************)
\* const PORT = process.env.PORT || 3000
DefaultPort == 3000
\* target: 'http://localhost:3000'
ProxyTargetPort == 3000
\* the key of the proxy rule: '/api'
ProxyContext == <<"/", "a", "p", "i">>
\* the pattern of the rewrite: /api/
RewritePattern == <<"a", "p", "i">>

EnvPorts == {3000, 4000, 8080}
PathChars == {"/", "a", "p", "i", "u"}

StartsWith(p, prefix) ==
    Len(p) >= Len(prefix) /\ SubSeq(p, 1, Len(prefix)) = prefix

Matches(p, pat) ==
    {i \in 1..(Len(p) - Len(pat) + 1) : SubSeq(p, i, i + Len(pat) - 1) = pat}

\* path.replace(/api/, ''): the first match of the pattern goes, wherever it is
Rewrite(p) ==
    IF Matches(p, RewritePattern) = {} THEN p
    ELSE LET i == CHOOSE m \in Matches(p, RewritePattern) :
                      \A n \in Matches(p, RewritePattern) : m <= n
         IN  SubSeq(p, 1, i - 1) \o SubSeq(p, i + Len(RewritePattern), Len(p))

\* app.listen(PORT, ...) of server.js
ServerListen ==
    /\ listening = <<>>
    /\ UNCHANGED <<runVars, genVars, patchVars>>
    /\ listening' = << IF envPORT.set THEN envPORT.val ELSE DefaultPort >>
    /\ UNCHANGED <<envPORT, req, fwd>>

\* the dev server proxies a request whose path starts with the rule's key
ProxyRequest ==
    /\ fwd = <<>>
    /\ UNCHANGED <<runVars, genVars, patchVars>>
    /\ StartsWith(req, ProxyContext)
    /\ fwd' = << [path |-> Rewrite(req), port |-> ProxyTargetPort] >>
    /\ UNCHANGED <<envPORT, listening, req>>

Tails == UNION {[1..n -> PathChars] : n \in 0..MaxTail}

DevInit ==
    /\ envPORT \in {[set |-> FALSE, val |-> 0]} \cup {[set |-> TRUE, val |-> v] : v \in EnvPorts}
    /\ req \in {ProxyContext \o t : t \in Tails}
    /\ listening = <<>>
    /\ fwd = <<>>

InitDev == DevInit /\ RunIdle /\ GenIdle /\ PatchIdle
NextDev == ServerListen \/ ProxyRequest
SpecDev == InitDev /\ [][NextDev]_vars

(***************************************************************************)
(* Properties.                                                             *)
(***************************************************************************)
Range(seq) == {seq[i] : i \in 1..Len(seq)}
ExistedAtStart == appPath \in fs0.dirs \/ appPath \in DOMAIN fs0.files
FsUntouched == dirs = fs0.dirs /\ files = fs0.files
SuccessMessage == <<"Project created successfully!">>
ManifestOnDisk == files[packageJsonPath].members

\* C1: when <cwd>/<appName> exists at the start of the run (as a directory or
\* as a file), the run prints the "already exists" message and ends with exit
\* status 1, no step follows, and in every state up to and including the end
\* no mutating step was attempted and the filesystem is the one of the start.
C1_ExistingTargetIsFatal ==
    (pc # "idle" /\ ExistedAtStart) =>
        /\ ops = <<>>
        /\ FsUntouched
        /\ pc \in {"check", "exited"}
        /\ pc = "exited" =>
              /\ exitCode = 1
              /\ out = << <<"Directory", appName, "already exists.">> >>
              /\ ~ENABLED RunNext

C1_Witness ==
    /\ pc = "exited"
    /\ appPath \in fs0.dirs
    /\ exitCode = 1

\* what the first n steps of StepOrder created is on the filesystem
ProducedBy(n) ==
    /\ n >= 1 => appPath \in dirs
    /\ n >= 2 => packageJsonPath \in DOMAIN files
    /\ n >= 3 => /\ nodeModulesPath \in dirs
                 /\ lockPath \in DOMAIN files
                 /\ HasKey(ManifestOnDisk, "dependencies")
    /\ n >= 4 => HasKey(ManifestOnDisk, "devDependencies")
    /\ n >= 5 => srcPath \in dirs
    /\ \A k \in 1..Len(Files(appName)) :
          n >= 5 + k =>
             /\ FullPath(Files(appName)[k][1]) \in DOMAIN files
             /\ files[FullPath(Files(appName)[k][1])] = TextFile(Trim(Files(appName)[k][2]))

\* C2: when a step after the existence check throws, the run is over at that
\* step: the steps attempted are exactly the steps of the handler up to the
\* failed one, each once (no retry, nothing later), no further step is
\* possible, the success message was not printed, and what the earlier steps
\* created is still on the filesystem.
C2_FailureStopsRunNoRollback ==
    pc = "crashed" =>
        /\ \E n \in 1..Len(StepOrder) :
              /\ ops = SubSeq(StepOrder, 1, n)
              /\ failedAt = StepOrder[n]
              /\ ProducedBy(n - 1)
        /\ SuccessMessage \notin Range(out)
        /\ ~ENABLED RunNext

C2_Witness ==
    /\ pc = "crashed"
    /\ failedAt = "write"
    /\ Len(ops) = 8
    /\ <<appName, "vite.config.js">> \in DOMAIN files
    /\ nodeModulesPath \in dirs

FivePaths ==
    { <<"server.js">>, <<"vite.config.js">>, <<"index.html">>,
      <<"src", "index.jsx">>, <<"src", "App.jsx">> }

\* C3: for every name the scaffold has exactly five entries, with the paths
\* server.js, vite.config.js, index.html, src/index.jsx and src/App.jsx; and
\* when a run has succeeded, the loop wrote five times and the files below the
\* project root, the package manager's own aside, are exactly these five.
C3_ExactlyFiveEntries ==
    /\ \A n \in Names :
          /\ Len(Files(n)) = 5
          /\ {Files(n)[i][1] : i \in 1..Len(Files(n))} = FivePaths
    /\ pc = "done" =>
          /\ Len(SelectSeq(ops, LAMBDA step : step = "write")) = 5
          /\ {p \in DOMAIN files : Len(p) > 1 /\ p[1] = appName} \ NpmOutput
                = {FullPath(q) : q \in FivePaths}

C3_Witness ==
    /\ pc = "done"
    /\ exitCode = 0
    /\ \A q \in FivePaths : FullPath(q) \in DOMAIN files

\* C4: two runs, whatever their names, generate the same five entries (paths
\* and contents) and write the same values to the manifest's type and scripts
\* fields; only the project root differs with the name.
C4_OutputIsNameInvariant ==
    \A i \in DOMAIN gen : \A j \in DOMAIN gen :
        /\ gen[i].entries = gen[j].entries
        /\ Get(gen[i].manifest.members, "type") = Get(gen[j].manifest.members, "type")
        /\ Get(gen[i].manifest.members, "scripts") = Get(gen[j].manifest.members, "scripts")
        /\ (gen[i].root = gen[j].root) <=> (names2[i] = names2[j])

C4_Witness ==
    /\ DOMAIN gen = {1, 2}
    /\ names2[1] # names2[2]
    /\ gen[1].manifest # gen[2].manifest

PatchedKeys == {"type", "scripts"}

C6_PatchIsIdempotent ==
    \A i \in 2..applied : after[i] = after[1]

C6_Witness ==
    /\ applied >= 2
    /\ after[1] # base
    /\ ~HasKey(base.members, "type")

\* C7: after the patch, whatever the manifest held, type is "module" and the
\* scripts mapping has exactly the keys dev, build and start, with the
\* commands vite, vite build and NODE_ENV=production node server.js.
C7_PatchSetsTypeAndScripts ==
    applied >= 1 =>
        LET patched == after[1].members
            scripts == Get(patched, "scripts")
        IN  /\ Cardinality({i \in 1..Len(patched) : patched[i][1] = "type"}) = 1
            /\ Cardinality({i \in 1..Len(patched) : patched[i][1] = "scripts"}) = 1
            /\ Get(patched, "type") = Str("module")
            /\ scripts.kind = "obj"
            /\ Len(scripts.obj) = 3
            /\ KeysOf(scripts.obj) = {"dev", "build", "start"}
            /\ Get(scripts.obj, "dev") = "vite"
            /\ Get(scripts.obj, "build") = "vite build"
            /\ Get(scripts.obj, "start") = "NODE_ENV=production node server.js"

C7_Witness ==
    /\ applied >= 1
    /\ HasKey(base.members, "scripts")
    /\ HasKey(Get(base.members, "scripts").obj, "lint")
    /\ HasKey(base.members, "type")
    /\ Get(base.members, "type") = Str("commonjs")

\* C8: a proxied request is forwarded with its path less the leading "/api":
\* "/api/u" is forwarded as "/u".
C8_ProxyStripsApiPrefix ==
    fwd # <<>> =>
        fwd[1].path = SubSeq(req, Len(ProxyContext) + 1, Len(req))

\* C9: the port the proxy forwards to is the port the server listens on,
\* whatever process.env.PORT is.
C9_ProxyPortIsServerPort ==
    (fwd # <<>> /\ listening # <<>>) => fwd[1].port = listening[1]

\* C10: a step is only reached with what it depends on in place: the project
\* directory before npm init and the two installs, every directory above an
\* entry before the entry is written, package.json before it is read and
\* before it is written back.
C10_DependenciesExistBeforeUse ==
    /\ pc \in {"npmInit", "install", "installDev"} => appPath \in dirs
    /\ pc \in {"install", "installDev", "readJson", "writeJson"} =>
          packageJsonPath \in DOMAIN files
    /\ pc = "write" =>
          /\ widx \in 1..Len(Files(appName))
          /\ Ancestors(FullPath(Files(appName)[widx][1])) \subseteq dirs

C10_Witness ==
    /\ pc = "write"
    /\ Files(appName)[widx][1] = <<"src", "App.jsx">>
    /\ srcPath \in dirs
    /\ packageJsonPath \in DOMAIN files

====
